---- MODULE Spec2Model ----
(***************************************************************************)
(* Model of the RAG assistant: the batch embedder, the vector store        *)
(* gateway (DBManager), the retrieval orchestrator (RAGEngine), the        *)
(* floating window with its worker pool, the index build CLI and the       *)
(* chunk assembly of split_and_add_metadata.                               *)
(***************************************************************************)
EXTENDS Integers, Sequences, FiniteSets, TLC

(***************************************************************************)
(* Bounds of the model                                                     *)
(***************************************************************************)
MaxTexts == 23
MaxSeed == 2
NumTexts == 5

(***************************************************************************)
(* Program constants                                                       *)
(***************************************************************************)
BATCH_SIZE == 10

Min(a, b) == IF a < b THEN a ELSE b

Ceil(a, b) == (a + b - 1) \div b

\* Python's None and a present value
None == <<>>
Some(x) == <<x>>

RECURSIVE LStrip(_)
LStrip(s) == IF s # <<>> /\ Head(s) = " " THEN LStrip(Tail(s)) ELSE s

RECURSIVE RStrip(_)
RStrip(s) == IF s # <<>> /\ s[Len(s)] = " " THEN RStrip(SubSeq(s, 1, Len(s) - 1)) ELSE s

\* str.strip(): a string is the sequence of its characters
Strip(s) == RStrip(LStrip(s))

\* str(n) and int(s) for natural numbers: a number is written as the sequence
\* of its decimal digits
DigitChar(d) ==
  CASE d = 0 -> "0" [] d = 1 -> "1" [] d = 2 -> "2" [] d = 3 -> "3" [] d = 4 -> "4"
    [] d = 5 -> "5" [] d = 6 -> "6" [] d = 7 -> "7" [] d = 8 -> "8" [] OTHER -> "9"

RECURSIVE Decimal(_)
\* the decimal digits of a natural number, as an f-string writes it
Decimal(n) == IF n < 10 THEN <<DigitChar(n)>> ELSE Decimal(n \div 10) \o <<DigitChar(n % 10)>>

DigitValue(c) ==
  CASE c = "0" -> 0 [] c = "1" -> 1 [] c = "2" -> 2 [] c = "3" -> 3 [] c = "4" -> 4
    [] c = "5" -> 5 [] c = "6" -> 6 [] c = "7" -> 7 [] c = "8" -> 8 [] c = "9" -> 9
    [] OTHER -> -1000

RECURSIVE NumberOf(_)
\* the number that a string of digits writes
NumberOf(digits) ==
  IF digits = <<>> THEN 0
  ELSE 10 * NumberOf(SubSeq(digits, 1, Len(digits) - 1)) + DigitValue(digits[Len(digits)])

VARIABLES
  texts,            \* embed_documents: the argument
  i,                \* embed_documents: loop variable of range(0, len(texts), BATCH_SIZE)
  all_embeddings,   \* embed_documents: accumulated vectors
  requests,         \* log of the calls of client.embeddings.create
  epc,              \* embed_documents: "idle", "loop", "returned" or "raised"
  eresult,          \* what the caller of embed_documents received
  apc,              \* RAGAssistantApp: "idle", "constructing" or "running"
  settings,         \* QSettings: the persisted key/value settings
  current_config,   \* RAGAssistantApp.current_config
  db,               \* DBManager.db
  collection,       \* the persisted vector collection, as stored
  llm_model_name,   \* RAGEngine.llm_model_name
  llm_base_url,     \* RAGEngine.llm_base_url
  k_value,          \* RAGEngine.k_value
  chain,            \* RAGEngine.chain
  llm_inits,        \* number of ChatOllama clients constructed by configure
  cfg_calls,        \* number of calls of RAGEngine.configure
  last_args,        \* arguments of the last call of RAGEngine.configure
  current_theme,    \* FloatingWindow.current_theme
  last_cfg,         \* how the last call of RAGEngine.configure ended: "none", "ok" or "failed"
  error_box,        \* whether the last _apply_config showed the QMessageBox of its except clause
  input_text,       \* FloatingWindow.input_field.text()
  input_enabled,    \* FloatingWindow.input_field.isEnabled()
  is_visible,       \* FloatingWindow.is_visible
  output_area,      \* FloatingWindow.output_area content
  workers,          \* the RAGWorker objects, in creation order
  signals,          \* finished/error signals queued for the UI thread
  quota,            \* how many queries and configure calls the run may make
  bpc,              \* build_index: where the run is
  api_key,          \* build_index: DASHSCOPE_API_KEY of the environment
  chunks,           \* build_index: the result of get_processed_chunks
  prompted,         \* build_index: whether input() asked the user
  user_input,       \* build_index: the text the user typed at the prompt
  estimate,         \* build_index: how the token estimation block ended
  persisted,        \* build_index: what Chroma.from_documents wrote to the store
  ipc,              \* get_processed_chunks: "idle", "load", "loop" or "returned"
  os_sep,           \* os.sep of the platform
  corpus,           \* the files under DOCS_PATH that match the glob, by source path
  unreadable,       \* the files of the corpus that TextLoader failed to read
  documents,        \* load_documents: the result, split_and_add_metadata: the argument
  doc_index,        \* split_and_add_metadata: number of documents processed
  all_chunks,       \* split_and_add_metadata: the chunks assembled so far
  skipped           \* split_and_add_metadata: documents skipped with a warning

embedVars == <<texts, i, all_embeddings, requests, epc, eresult>>

engineVars == <<llm_model_name, llm_base_url, k_value, chain>>

configVars == <<settings, current_config, llm_inits, cfg_calls, last_args, current_theme,
                last_cfg, error_box>>

windowVars == <<input_text, input_enabled, is_visible, output_area>>

appVars == <<apc, db, collection, engineVars, configVars, windowVars, workers, signals, quota>>

buildVars == <<bpc, api_key, chunks, prompted, user_input, estimate, persisted>>

indexVars == <<ipc, os_sep, corpus, unreadable, documents, doc_index, all_chunks, skipped>>

vars == <<embedVars, appVars, buildVars, indexVars>>

(***************************************************************************)
(* The embedding service: one vector per input, in request order.          *)
(***************************************************************************)
Embedding(t) == <<t, t + 1>>

ServiceResponse(batch) == [j \in 1..Len(batch) |-> Embedding(batch[j])]

\* a slice that also takes the first text of the next slice
BatchAt_Overlap(ts, start) == SubSeq(ts, start + 1, Min(start + BATCH_SIZE + 1, Len(ts)))

\* a slice one text short of the ceiling, while the loop still advances by BATCH_SIZE
BatchAt_Short(ts, start) == SubSeq(ts, start + 1, Min(start + BATCH_SIZE - 1, Len(ts)))

\* texts[i:i + BATCH_SIZE] of Python, i counted from 0
BatchAt(ts, start) == SubSeq(ts, start + 1, Min(start + BATCH_SIZE, Len(ts)))

TextAt(seed, j) == (seed * j + j) % NumTexts

NoResult == [returned |-> FALSE, value |-> <<>>]

EmbedIdle ==
  /\ texts = <<>>
  /\ i = 0
  /\ all_embeddings = <<>>
  /\ requests = <<>>
  /\ epc = "idle"
  /\ eresult = NoResult

EmbedInit ==
  /\ \E n \in 0..MaxTexts, seed \in 0..MaxSeed :
       texts = [j \in 1..n |-> TextAt(seed, j)]
  /\ i = 0
  /\ all_embeddings = <<>>
  /\ requests = <<>>
  /\ epc = "loop"
  /\ eresult = NoResult

\* a loop that logs the failure of a slice and goes on with the next slice
EmbedRequest_Swallow ==
  /\ epc = "loop"
  /\ i < Len(texts)
  /\ LET batch == BatchAt(texts, i) IN
     \E ok \in BOOLEAN :
       /\ requests' = Append(requests, [start |-> i, input |-> batch, ok |-> ok])
       /\ all_embeddings' = IF ok THEN all_embeddings \o ServiceResponse(batch)
                                  ELSE all_embeddings
       /\ i' = i + BATCH_SIZE
       /\ UNCHANGED <<epc, eresult>>
  /\ UNCHANGED <<texts, appVars, buildVars, indexVars>>

\* one iteration of the for loop: the request of one slice
EmbedRequest ==
  /\ epc = "loop"
  /\ i < Len(texts)
  /\ LET batch == BatchAt(texts, i) IN
     \E ok \in BOOLEAN :
       /\ requests' = Append(requests, [start |-> i, input |-> batch, ok |-> ok])
       /\ IF ok
            THEN /\ all_embeddings' = all_embeddings \o ServiceResponse(batch)
                 /\ i' = i + BATCH_SIZE
                 /\ UNCHANGED <<epc, eresult>>
            ELSE /\ epc' = "raised"
                 /\ UNCHANGED <<all_embeddings, i, eresult>>
  /\ UNCHANGED <<texts, appVars, buildVars, indexVars>>

\* the loop is exhausted: return all_embeddings
EmbedReturn ==
  /\ epc = "loop"
  /\ i >= Len(texts)
  /\ epc' = "returned"
  /\ eresult' = [returned |-> TRUE, value |-> all_embeddings]
  /\ UNCHANGED <<texts, i, all_embeddings, requests>>
  /\ UNCHANGED <<appVars, buildVars, indexVars>>

EmbedNext == EmbedRequest \/ EmbedReturn

(***************************************************************************)
(* Vector store gateway: DBManager                                         *)
(***************************************************************************)
MaxChunksStored == 2

\* a metadata key that the stored chunk does not have
Absent == "<absent>"

StoredChunk(n) ==
  CASE n = 1 -> [page_content |-> "text1", source |-> "foo.bar.rst.txt", api_name |-> "foo.bar"]
    [] n = 2 -> [page_content |-> "text2", source |-> "intro.rst.txt", api_name |-> Absent]
    [] n = 3 -> [page_content |-> "", source |-> Absent, api_name |-> "None"]
    [] OTHER -> [page_content |-> "text4", source |-> "dev.rst.txt", api_name |-> "None"]

Collections == { [n \in 1..len |-> StoredChunk(n)] : len \in 0..MaxChunksStored }

\* DBManager.__init__: self.db after the three initialisation stages
DBManagerInit(api_key_set, embeddings_ok, store_ok) ==
  IF ~api_key_set THEN None
  ELSE IF ~embeddings_ok THEN None
  ELSE IF ~store_ok THEN None
  ELSE Some("Chroma")

\* Chroma.similarity_search: the k nearest stored chunks, nearest first; the
\* collection is listed by nearness to the query
SimilaritySearch(coll, query, k) == SubSeq(coll, 1, Min(k, Len(coll)))

\* a gateway that lets the failure of the search reach its caller
RetrieveDocuments_Raise(query, k, outcome) ==
  IF db = None THEN [docs |-> <<>>, raised |-> FALSE]
  ELSE IF outcome # "ok" THEN [docs |-> <<>>, raised |-> TRUE]
  ELSE [docs |-> SimilaritySearch(collection, query, k), raised |-> FALSE]

\* DBManager.retrieve_documents; outcome is what similarity_search does:
\* "ok", "embed_error" (embedding the query raised: embed_query fails as
\* embed_documents fails) or "search_error" (the search of the store raised)
RetrieveDocuments(query, k, outcome) ==
  IF db = None THEN [docs |-> <<>>, raised |-> FALSE]
  ELSE IF outcome # "ok" THEN [docs |-> <<>>, raised |-> FALSE]
  ELSE [docs |-> SimilaritySearch(collection, query, k), raised |-> FALSE]

SearchOutcomes == {"ok", "embed_error", "search_error"}

(***************************************************************************)
(* Retrieval orchestrator: RAGEngine                                       *)
(***************************************************************************)
Separator == "<nl><nl>---<nl><nl>"

Sentinel == <<"no relevant documents found">>

NotConfiguredMsg == "engine not configured or LLM connection failed"

LLMErrorMsg == "LLM failed to generate an answer"

TaskFailedMsg == "RAG task failed"

\* dict.get(key, default)
Get(value, default) == IF value = Absent THEN default ELSE value

\* the f-string of one document; a string is the sequence of its pieces
FormatBlock(doc) ==
  << "### source: ", Get(doc.source, "unknown source"), " (API: ",
     Get(doc.api_name, "general"), ")<nl>'''text<nl>", doc.page_content, "<nl>'''" >>

RECURSIVE Join(_, _)
Join(blocks, sep) ==
  IF blocks = <<>> THEN <<>>
  ELSE IF Len(blocks) = 1 THEN blocks[1]
  ELSE blocks[1] \o <<sep>> \o Join(Tail(blocks), sep)

\* a formatter that puts no separator between the blocks
FormatContext_NoSep(docs) ==
  Join([d \in 1..Len(docs) |-> FormatBlock(docs[d])], "")

\* RAGEngine._format_context
FormatContext(docs) ==
  Join([d \in 1..Len(docs) |-> FormatBlock(docs[d])], Separator)

\* a falsy string in Python: the empty string
IsEmptyStr(pieces) == \A p \in 1..Len(pieces) : pieces[p] = ""

\* a configure that re-creates the client on every call
Configure_Always(m, u, k, ok) ==
  [ model |-> Some(m), url |-> Some(u), k |-> Some(k),
    chain |-> IF ok THEN Some([model |-> m, url |-> u, call |-> llm_inits + 1]) ELSE None,
    inits |-> llm_inits + 1, raised |-> ~ok ]

\* a configure whose except clause raises without clearing self.chain
Configure_KeepChain(m, u, k, ok) ==
  IF /\ llm_model_name = Some(m)
     /\ llm_base_url = Some(u)
     /\ k_value = Some(k)
     /\ chain # None
  THEN [ model |-> llm_model_name, url |-> llm_base_url, k |-> k_value,
         chain |-> chain, inits |-> llm_inits, raised |-> FALSE ]
  ELSE [ model |-> Some(m), url |-> Some(u), k |-> Some(k),
         chain |-> IF ok THEN Some([model |-> m, url |-> u, call |-> llm_inits + 1]) ELSE chain,
         inits |-> llm_inits + 1, raised |-> ~ok ]

\* RAGEngine.configure: the engine's fields after the call and whether it
\* raised; ok is whether ChatOllama and the prompt could be constructed
Configure(m, u, k, ok) ==
  IF /\ llm_model_name = Some(m)
     /\ llm_base_url = Some(u)
     /\ k_value = Some(k)
     /\ chain # None
  THEN [ model |-> llm_model_name, url |-> llm_base_url, k |-> k_value,
         chain |-> chain, inits |-> llm_inits, raised |-> FALSE ]
  ELSE [ model |-> Some(m), url |-> Some(u), k |-> Some(k),
         chain |-> IF ok THEN Some([model |-> m, url |-> u, call |-> llm_inits + 1]) ELSE None,
         inits |-> llm_inits + 1, raised |-> ~ok ]


(***************************************************************************)
(* The application: settings, floating window, worker pool                 *)
(***************************************************************************)
MaxQueries == 3
MaxConfigure == 3

MaxThreadCount == 2
K_MIN == 1
K_MAX == 10
DEFAULT_RETRIEVAL_K == 3

DEFAULT_LLM_MODEL_NAME == <<"llama3.1">>
DEFAULT_LLM_BASE_URL == <<"http://localhost:11434">>
DEFAULT_THEME == "Light"

Themes == {"Light", "Dark"}

\* values of the K spin box that the model tries: setRange(1, 10) keeps the
\* value the user can choose within the range
KChoices == {DEFAULT_RETRIEVAL_K, K_MAX}

\* texts typed into the model-name and URL fields of the settings window
ModelTexts == {<<>>, DEFAULT_LLM_MODEL_NAME, DEFAULT_LLM_MODEL_NAME \o <<" ">>, <<"qwen2">>}
UrlTexts == {<<" ">>, DEFAULT_LLM_BASE_URL}

\* texts typed into the input field or found on the clipboard
InputTexts == {<<" ">>, <<" ", "q", " ">>}

Placeholder == "press Ctrl+Space and type your question"
Thinking == "thinking..."
AnswerText == "answer"

\* the settings file found at startup: before the first run no key is set; a
\* key that is set holds its value as the INI file writes it, a number as its
\* decimal digits, and the file can be edited between runs
PersistedSettings ==
  { [model |-> None, url |-> None, k |-> None, theme |-> None],
    [model |-> None, url |-> None, k |-> Some(Decimal(K_MIN - 1)), theme |-> None] }

\* QSettings.value(key, default)
Value(stored, default) == IF stored = None THEN default ELSE stored[1]

\* _load_initial_config; int() of the default, a number, is that number
LoadInitialConfig(store) ==
  [ model |-> Value(store.model, DEFAULT_LLM_MODEL_NAME),
    url |-> Value(store.url, DEFAULT_LLM_BASE_URL),
    k |-> IF store.k = None THEN DEFAULT_RETRIEVAL_K ELSE NumberOf(store.k[1]),
    theme |-> Value(store.theme, DEFAULT_THEME) ]

\* SettingsWindow.get_current_settings, read after _save_settings set every key
GetCurrentSettings(store) ==
  [ model |-> store.model[1],
    url |-> store.url[1],
    k |-> NumberOf(store.k[1]),
    theme |-> store.theme[1] ]

\* a run is bounded in its queries and in its configure calls; a run that
\* starts from an edited settings file is followed through one query
Quotas == { [queries |-> 1, configures |-> MaxConfigure],
            [queries |-> MaxQueries, configures |-> 1] }

AppIdle ==
  /\ apc = "idle"
  /\ settings = [model |-> None, url |-> None, k |-> None, theme |-> None]
  /\ current_config = None
  /\ db = None
  /\ collection = <<>>
  /\ llm_model_name = None
  /\ llm_base_url = None
  /\ k_value = None
  /\ chain = None
  /\ llm_inits = 0
  /\ cfg_calls = 0
  /\ last_args = <<>>
  /\ current_theme = "Light"
  /\ last_cfg = "none"
  /\ error_box = FALSE
  /\ input_text = <<>>
  /\ input_enabled = TRUE
  /\ is_visible = FALSE
  /\ output_area = Placeholder
  /\ workers = <<>>
  /\ signals = <<>>
  /\ quota = [queries |-> 0, configures |-> 0]

\* RAGAssistantApp.__init__ after its steps 1 to 4: the settings are loaded
\* and the objects constructed, the initial configuration is not yet applied
AppInit ==
  /\ apc = "constructing"
  /\ settings \in PersistedSettings
  /\ current_config = Some(LoadInitialConfig(settings))
  /\ \E api_key_set \in BOOLEAN, embeddings_ok \in BOOLEAN, store_ok \in BOOLEAN :
       db = DBManagerInit(api_key_set, embeddings_ok, store_ok)
  /\ collection \in IF db = None THEN {<<>>} ELSE Collections
  /\ llm_model_name = None
  /\ llm_base_url = None
  /\ k_value = None
  /\ chain = None
  /\ llm_inits = 0
  /\ cfg_calls = 0
  /\ last_args = <<>>
  /\ current_theme = "Light"
  /\ last_cfg = "none"
  /\ error_box = FALSE
  /\ input_text = <<>>
  /\ input_enabled = TRUE
  /\ is_visible = FALSE
  /\ output_area = Placeholder
  /\ workers = <<>>
  /\ signals = <<>>
  /\ quota \in Quotas
  /\ settings.k # None => quota.queries = 1

\* RAGAssistantApp._apply_config: configure the engine, then the theme
ApplyConfig(config, ok) ==
  LET r == Configure(config.model, config.url, config.k, ok) IN
  /\ llm_model_name' = r.model
  /\ llm_base_url' = r.url
  /\ k_value' = r.k
  /\ chain' = r.chain
  /\ llm_inits' = r.inits
  /\ cfg_calls' = cfg_calls + 1
  /\ last_args' = <<Some(config.model), Some(config.url), Some(config.k)>>
  /\ last_cfg' = IF r.raised THEN "failed" ELSE "ok"
  /\ current_theme' = IF r.raised THEN current_theme ELSE config.theme
  /\ current_config' = IF r.raised THEN current_config ELSE Some(config)
  /\ error_box' = r.raised

\* RAGAssistantApp.__init__, steps 5 to 7: apply the initial configuration
\* and hide the window
AppStart ==
  /\ apc = "constructing"
  /\ \E ok \in BOOLEAN : ApplyConfig(current_config[1], ok)
  /\ apc' = "running"
  /\ is_visible' = FALSE
  /\ UNCHANGED <<settings, db, collection, input_text, input_enabled, output_area,
                 workers, signals, quota>>
  /\ UNCHANGED <<embedVars, buildVars, indexVars>>

\* SettingsWindow._save_settings, whose settings_updated signal runs
\* _handle_settings_update and _apply_config
SaveSettings ==
  /\ apc = "running"
  /\ cfg_calls < quota.configures
  /\ \E mt \in ModelTexts, ut \in UrlTexts, k \in KChoices, t \in Themes, ok \in BOOLEAN :
       LET model_name == Strip(mt)
           base_url == Strip(ut)
           store == [model |-> Some(model_name), url |-> Some(base_url),
                     k |-> Some(Decimal(k)), theme |-> Some(t)]
       IN IF model_name = <<>> \/ base_url = <<>>
            THEN UNCHANGED <<settings, engineVars, configVars>>
            ELSE /\ settings' = store
                 /\ ApplyConfig(GetCurrentSettings(store), ok)
  /\ UNCHANGED <<embedVars, buildVars, indexVars>>
  /\ UNCHANGED <<apc, db, collection, windowVars, workers, signals, quota>>

\* the exit button of the settings window quits the application, and main()
\* runs again: a new process constructs its objects and loads the settings
\* the old one saved. The runs that the user quits are those in which no
\* query was submitted, and the environment of DBManager stays as it was.
AppRestart ==
  /\ apc = "running"
  /\ cfg_calls < quota.configures
  /\ workers = <<>>
  /\ apc' = "constructing"
  /\ current_config' = Some(LoadInitialConfig(settings))
  /\ llm_model_name' = None
  /\ llm_base_url' = None
  /\ k_value' = None
  /\ chain' = None
  /\ last_args' = <<>>
  /\ current_theme' = "Light"
  /\ last_cfg' = "none"
  /\ error_box' = FALSE
  /\ input_text' = <<>>
  /\ input_enabled' = TRUE
  /\ is_visible' = FALSE
  /\ output_area' = Placeholder
  /\ UNCHANGED <<settings, db, collection, llm_inits, cfg_calls, workers, signals, quota>>
  /\ UNCHANGED <<embedVars, buildVars, indexVars>>

\* a RAGWorker: its query, where its run is, the locals of generate_answer
\* while they are live, how often update_result ran for it, and, until its
\* result is emitted, which configure call set the k it searched with
\* (k_call) and which built the chain it invoked (chain_call, 0 for no chain);
\* configure calls that run past the early return are counted by llm_inits
NewWorker(query) ==
  [ query |-> query, pc |-> "queued", docs |-> <<>>, context |-> <<>>,
    retrieval |-> "none", gen_failed |-> FALSE, result |-> "", updates |-> 0,
    k_call |-> 0, chain_call |-> 0 ]

\* FloatingWindow._handle_submit, whose query_submitted signal runs
\* RAGAssistantApp._handle_query: a new worker is handed to the pool
HandleSubmit ==
  LET query == Strip(input_text) IN
  IF query # <<>>
    THEN /\ Len(workers) < quota.queries
         /\ output_area' = Thinking
         /\ input_enabled' = FALSE
         /\ workers' = Append(workers, NewWorker(query))
         /\ UNCHANGED <<input_text, is_visible>>
    ELSE UNCHANGED <<windowVars, workers>>

\* the user edits the input field, which takes input only while enabled
TypeText ==
  /\ apc = "running"
  /\ is_visible
  /\ input_enabled
  /\ \E t \in InputTexts : input_text' = t
  /\ UNCHANGED <<input_enabled, is_visible, output_area>>
  /\ UNCHANGED <<embedVars, buildVars, indexVars>>
  /\ UNCHANGED <<apc, settings, db, collection, engineVars, configVars, workers, signals, quota>>

\* Enter in the input field: returnPressed is connected to _handle_submit
PressEnter ==
  /\ apc = "running"
  /\ is_visible
  /\ input_enabled
  /\ HandleSubmit
  /\ UNCHANGED <<embedVars, buildVars, indexVars>>
  /\ UNCHANGED <<apc, settings, db, collection, engineVars, configVars, signals, quota>>

\* the submit button: clicked is connected to _handle_submit
ClickSubmit ==
  /\ apc = "running"
  /\ is_visible
  /\ HandleSubmit
  /\ UNCHANGED <<embedVars, buildVars, indexVars>>
  /\ UNCHANGED <<apc, settings, db, collection, engineVars, configVars, signals, quota>>

\* FloatingWindow.toggle_visibility on the global shortcut: hide_window, or
\* show_window, which fills the input field from the clipboard
ToggleVisibility ==
  /\ apc = "running"
  /\ IF is_visible
       THEN /\ is_visible' = FALSE
            /\ UNCHANGED input_text
       ELSE /\ \E clip \in InputTexts : input_text' = Strip(clip)
            /\ is_visible' = TRUE
  /\ UNCHANGED <<input_enabled, output_area>>
  /\ UNCHANGED <<embedVars, buildVars, indexVars>>
  /\ UNCHANGED <<apc, settings, db, collection, engineVars, configVars, workers, signals, quota>>

\* the workers that occupy a pool thread
Running == { w \in 1..Len(workers) : workers[w].pc \in {"check", "retrieve", "invoke", "emit"} }

\* a pool that runs every worker at once, as with no thread limit set
PoolStart_NoLimit(w) ==
  /\ w \in DOMAIN workers
  /\ workers[w].pc = "queued"
  /\ workers' = [workers EXCEPT ![w].pc = "check"]
  /\ UNCHANGED <<embedVars, buildVars, indexVars>>
  /\ UNCHANGED <<apc, settings, db, collection, engineVars, configVars, windowVars, signals, quota>>

\* QThreadPool: the longest-waiting worker gets a thread when one is free
PoolStart(w) ==
  /\ w \in DOMAIN workers
  /\ workers[w].pc = "queued"
  /\ \A v \in 1..(w - 1) : workers[v].pc # "queued"
  /\ Cardinality(Running) < MaxThreadCount
  /\ workers' = [workers EXCEPT ![w].pc = "check"]
  /\ UNCHANGED <<embedVars, buildVars, indexVars>>
  /\ UNCHANGED <<apc, settings, db, collection, engineVars, configVars, windowVars, signals, quota>>

\* generate_answer: the check of self.chain
WorkerCheckChain(w) ==
  /\ w \in DOMAIN workers
  /\ workers[w].pc = "check"
  /\ IF chain = None
       THEN workers' = [workers EXCEPT ![w].pc = "emit", ![w].result = NotConfiguredMsg]
       ELSE workers' = [workers EXCEPT ![w].pc = "retrieve"]
  /\ UNCHANGED <<embedVars, buildVars, indexVars>>
  /\ UNCHANGED <<apc, settings, db, collection, engineVars, configVars, windowVars, signals, quota>>

\* generate_answer: retrieve_documents(query, k=self.k_value), _format_context
\* and the sentinel for an empty context
WorkerRetrieve(w) ==
  /\ w \in DOMAIN workers
  /\ workers[w].pc = "retrieve"
  /\ \E outcome \in SearchOutcomes :
       LET r == RetrieveDocuments(workers[w].query, k_value[1], outcome)
           formatted == FormatContext(r.docs)
           context == IF IsEmptyStr(formatted) THEN Sentinel ELSE formatted
       IN IF r.raised
            THEN workers' = [workers EXCEPT ![w].pc = "emit",
                                            ![w].retrieval = "propagated",
                                            ![w].result = LLMErrorMsg]
            ELSE workers' = [workers EXCEPT ![w].pc = "invoke",
                                            ![w].retrieval = IF db = None THEN "no_db" ELSE outcome,
                                            ![w].docs = r.docs,
                                            ![w].context = context,
                                            ![w].k_call = llm_inits]
  /\ UNCHANGED <<embedVars, buildVars, indexVars>>
  /\ UNCHANGED <<apc, settings, db, collection, engineVars, configVars, windowVars, signals, quota>>

GenerationOutcomes == {"answer", "fail"}

\* generate_answer: await self.chain.ainvoke({context, question}), the except
\* clause, and the return, which ends the life of the locals
WorkerInvoke(w) ==
  /\ w \in DOMAIN workers
  /\ workers[w].pc = "invoke"
  /\ \E outcome \in GenerationOutcomes :
       LET failed == chain = None \/ outcome = "fail" IN
       workers' = [workers EXCEPT ![w].pc = "emit",
                                  ![w].docs = <<>>,
                                  ![w].context = <<>>,
                                  ![w].retrieval = "none",
                                  ![w].gen_failed = failed,
                                  ![w].chain_call = IF chain = None THEN 0 ELSE chain[1].call,
                                  ![w].result = IF failed THEN LLMErrorMsg ELSE AnswerText]
  /\ UNCHANGED <<embedVars, buildVars, indexVars>>
  /\ UNCHANGED <<apc, settings, db, collection, engineVars, configVars, windowVars, signals, quota>>

\* a run whose except clause swallows the exception without emitting
WorkerEmit_DropError(w) ==
  /\ w \in DOMAIN workers
  /\ workers[w].pc = "emit"
  /\ \E raised \in BOOLEAN :
       signals' = IF raised THEN signals
                  ELSE Append(signals, [ worker |-> w, signal |-> "finished",
                                         text |-> workers[w].result ])
  /\ workers' = [workers EXCEPT ![w].pc = "emitted", ![w].retrieval = "none",
                                 ![w].result = "", ![w].k_call = 0, ![w].chain_call = 0]
  /\ UNCHANGED <<embedVars, buildVars, indexVars>>
  /\ UNCHANGED <<apc, settings, db, collection, engineVars, configVars, windowVars, quota>>

\* RAGWorker.run: finished.emit(result), or error.emit when the run raised;
\* the signal is queued for the UI thread and the pool thread is released
WorkerEmit(w) ==
  /\ w \in DOMAIN workers
  /\ workers[w].pc = "emit"
  /\ \E raised \in BOOLEAN :
       signals' = Append(signals,
                         [ worker |-> w,
                           signal |-> IF raised THEN "error" ELSE "finished",
                           text |-> IF raised THEN TaskFailedMsg ELSE workers[w].result ])
  /\ workers' = [workers EXCEPT ![w].pc = "emitted", ![w].retrieval = "none",
                                 ![w].result = "", ![w].k_call = 0, ![w].chain_call = 0]
  /\ UNCHANGED <<embedVars, buildVars, indexVars>>
  /\ UNCHANGED <<apc, settings, db, collection, engineVars, configVars, windowVars, quota>>

\* FloatingWindow.update_result, run by the UI thread for the oldest signal
UpdateResult ==
  /\ signals # <<>>
  /\ LET sg == Head(signals) IN
       /\ output_area' = sg.text
       /\ workers' = [workers EXCEPT ![sg.worker].pc = "done",
                                     ![sg.worker].gen_failed = FALSE,
                                     ![sg.worker].updates = @ + 1]
  /\ input_enabled' = TRUE
  /\ input_text' = <<>>
  /\ signals' = Tail(signals)
  /\ UNCHANGED <<embedVars, buildVars, indexVars>>
  /\ UNCHANGED <<apc, settings, db, collection, engineVars, configVars, is_visible, quota>>

WorkerStep(w) ==
  \/ PoolStart(w)
  \/ WorkerCheckChain(w)
  \/ WorkerRetrieve(w)
  \/ WorkerInvoke(w)
  \/ WorkerEmit(w)

AppNext ==
  \/ AppStart
  \/ SaveSettings
  \/ AppRestart
  \/ TypeText
  \/ PressEnter
  \/ ClickSubmit
  \/ ToggleVisibility
  \/ \E w \in 1..MaxQueries : PoolStart(w)
  \/ \E w \in 1..MaxQueries : WorkerCheckChain(w)
  \/ \E w \in 1..MaxQueries : WorkerRetrieve(w)
  \/ \E w \in 1..MaxQueries : WorkerInvoke(w)
  \/ \E w \in 1..MaxQueries : WorkerEmit(w)
  \/ UpdateResult

(***************************************************************************)
(* The index build CLI: build_index                                        *)
(***************************************************************************)
MaxBuildChunks == 12

\* values of DASHSCOPE_API_KEY: unset, empty, set
ApiKeys == {"<unset>", "", "sk-key"}

\* answers typed at the confirmation prompt
Answers == { <<>>, <<"y">>, <<"Y">>, <<" ", "y", " ">>, <<"n">>, <<"N">>, <<"y", "e", "s">> }

UpperChar(c) ==
  CASE c = "y" -> "Y"
    [] c = "n" -> "N"
    [] c = "e" -> "E"
    [] c = "s" -> "S"
    [] OTHER -> c

\* str.upper()
Upper(s) == [j \in 1..Len(s) |-> UpperChar(s[j])]

BuildIdle ==
  /\ bpc = "idle"
  /\ api_key = "<unset>"
  /\ chunks = <<>>
  /\ prompted = FALSE
  /\ user_input = <<>>
  /\ estimate = "none"
  /\ persisted = <<>>

BuildInit ==
  /\ bpc = "start"
  /\ api_key \in ApiKeys
  /\ chunks = <<>>
  /\ prompted = FALSE
  /\ user_input = <<>>
  /\ estimate = "none"
  /\ persisted = <<>>

\* step 1: the API key must be set
BuildCheckKey ==
  /\ bpc = "start"
  /\ bpc' = IF api_key \in {"<unset>", ""} THEN "aborted" ELSE "load"
  /\ UNCHANGED <<api_key, chunks, prompted, user_input, estimate, persisted>>
  /\ UNCHANGED <<embedVars, appVars, indexVars>>

\* step 2: get_processed_chunks; an empty list ends the run
BuildLoadChunks ==
  /\ bpc = "load"
  /\ \E n \in 0..MaxBuildChunks :
       /\ chunks' = [j \in 1..n |-> TextAt(1, j)]
       /\ bpc' = IF n = 0 THEN "aborted" ELSE "estimate"
  /\ UNCHANGED <<api_key, prompted, user_input, estimate, persisted>>
  /\ UNCHANGED <<embedVars, appVars, indexVars>>

\* how the try block of step 3 can end: normally, with an ImportError raised
\* by the token estimation, with another exception raised by the estimation,
\* or with an exception raised by input()
EstimateOutcomes == {"ok", "import_error", "estimate_error", "input_error"}

\* a step 3 that goes on whatever the user answered
BuildEstimate_AnyAnswer ==
  /\ bpc = "estimate"
  /\ \E outcome \in EstimateOutcomes, answer \in Answers :
       /\ estimate' = outcome
       /\ prompted' = (outcome \in {"ok", "input_error"})
       /\ user_input' = IF outcome = "ok" THEN answer ELSE <<>>
       /\ bpc' = IF outcome \in {"ok", "import_error"} THEN "init" ELSE "aborted"
  /\ UNCHANGED <<api_key, chunks, persisted>>
  /\ UNCHANGED <<embedVars, appVars, indexVars>>

\* step 3: token estimation and the confirmation prompt, with the two
\* except clauses
BuildEstimate ==
  /\ bpc = "estimate"
  /\ \E outcome \in EstimateOutcomes, answer \in Answers :
       /\ estimate' = outcome
       /\ prompted' = (outcome \in {"ok", "input_error"})
       /\ user_input' = IF outcome = "ok" THEN answer ELSE <<>>
       /\ bpc' = CASE outcome = "ok" ->
                        IF Upper(Strip(answer)) # <<"Y">> THEN "aborted" ELSE "init"
                   [] outcome = "import_error" -> "init"
                   [] OTHER -> "aborted"
  /\ UNCHANGED <<api_key, chunks, persisted>>
  /\ UNCHANGED <<embedVars, appVars, indexVars>>

\* step 4: the embedding client
BuildInitEmbeddings ==
  /\ bpc = "init"
  /\ \E ok \in BOOLEAN : bpc' = IF ok THEN "store" ELSE "aborted"
  /\ UNCHANGED <<api_key, chunks, prompted, user_input, estimate, persisted>>
  /\ UNCHANGED <<embedVars, appVars, indexVars>>

\* step 5: Chroma.from_documents calls embed_documents on the chunk texts
BuildFromDocuments ==
  /\ bpc = "store"
  /\ bpc' = "embedding"
  /\ texts' = chunks
  /\ i' = 0
  /\ all_embeddings' = <<>>
  /\ epc' = "loop"
  /\ UNCHANGED <<requests, eresult>>
  /\ UNCHANGED <<api_key, chunks, prompted, user_input, estimate, persisted>>
  /\ UNCHANGED <<appVars, indexVars>>

\* step 5: the vectors are back and the triples are written; a failure of
\* the write is caught and reported
BuildPersist ==
  /\ bpc = "embedding"
  /\ epc = "returned"
  /\ \E ok \in BOOLEAN :
       /\ persisted' = IF ok THEN [j \in 1..Len(chunks) |->
                                     [text |-> chunks[j], vector |-> eresult.value[j]]]
                       ELSE persisted
       /\ bpc' = IF ok THEN "built" ELSE "failed"
  /\ UNCHANGED <<api_key, chunks, prompted, user_input, estimate>>
  /\ UNCHANGED <<embedVars, appVars, indexVars>>

\* step 5: embed_documents raised; the except clause reports it
BuildEmbedFailed ==
  /\ bpc = "embedding"
  /\ epc = "raised"
  /\ bpc' = "failed"
  /\ UNCHANGED <<api_key, chunks, prompted, user_input, estimate, persisted>>
  /\ UNCHANGED <<embedVars, appVars, indexVars>>

BuildNext ==
  \/ BuildCheckKey
  \/ BuildLoadChunks
  \/ BuildEstimate
  \/ BuildInitEmbeddings
  \/ BuildFromDocuments
  \/ EmbedRequest
  \/ EmbedReturn
  \/ BuildPersist
  \/ BuildEmbedFailed

(***************************************************************************)
(* Chunk assembly: _extract_metadata and split_and_add_metadata            *)
(* A string is the sequence of its pieces; no piece is a concatenation of  *)
(* other pieces, so two strings are equal exactly when their sequences are.*)
(***************************************************************************)
MaxDocs == 3
MaxChunksPerDoc == 6

\* os.sep of the platform the program runs on
Seps == {"/", "\\"}

\* the characters at which os.path.basename splits: ntpath splits at both
SplitChars(sep) == IF sep = "\\" THEN {"\\", "/"} ELSE {"/"}

\* the documents of the corpus: the directories below DOCS_PATH and the file
\* name; the glob **/*.rst.txt selects names that end in .rst.txt
DocFiles ==
  { [dirs |-> <<"reference", "api">>, name |-> <<"a", ".rst.txt">>],
    [dirs |-> <<"reference", "api">>, name |-> <<"a", "_", "1", ".rst.txt">>],
    [dirs |-> <<"reference", "api">>, name |-> <<"a", ".rst.txt", ".rst.txt">>],
    [dirs |-> <<"user_guide">>, name |-> <<"a", ".rst.txt">>],
    [dirs |-> <<"misc">>, name |-> <<"a", "_", "1", ".rst.txt">>],
    [dirs |-> <<"development", "user_guide">>, name |-> <<"a", ".rst.txt">>],
    [dirs |-> <<"getting_started", "reference", "api">>, name |-> <<"a", ".rst.txt">>],
    [dirs |-> <<"development">>, name |-> <<"a", ".rst.txt">>] }

RECURSIVE JoinPath(_, _, _)
\* the path the loader records as a document's source: the directories and
\* the name joined by os.sep
JoinPath(dirs, name, sep) ==
  IF dirs = <<>> THEN name
  ELSE <<Head(dirs), sep>> \o JoinPath(Tail(dirs), name, sep)

\* the source paths of the corpus on a platform
DocPaths(sep) == { JoinPath(f.dirs, f.name, sep) : f \in DocFiles }

\* the lists of at most MaxDocs documents with different paths
DocumentLists(sep) ==
  { ds \in UNION { [1..n -> DocPaths(sep)] : n \in 0..MaxDocs } :
      \A x, y \in DOMAIN ds : x # y => ds[x] # ds[y] }

\* sub in s, for strings
Contains(s, sub) ==
  \E start \in 1..(Len(s) - Len(sub) + 1) : SubSeq(s, start, start + Len(sub) - 1) = sub

\* s.replace(old, new) for a one-character old
Replace(s, old, new) == [p \in DOMAIN s |-> IF s[p] = old THEN new ELSE s[p]]

RECURSIVE Basename(_, _)
\* os.path.basename: what follows the last separator
Basename(path, sep) ==
  IF path = <<>> THEN <<>>
  ELSE IF path[Len(path)] \in SplitChars(sep) THEN <<>>
  ELSE Basename(SubSeq(path, 1, Len(path) - 1), sep) \o <<path[Len(path)]>>

\* filename.replace('.rst.txt', ''): every occurrence is removed
StripExtension(filename) == SelectSeq(filename, LAMBDA piece : piece # ".rst.txt")

\* the rules tried in the order of the places in the path where markers occur
ExtractMetadata_NoPriority(source_path, sep) ==
  LET normalized_path == Replace(source_path, sep, "/")
      first == normalized_path[1]
      doc_type == IF first = "reference" THEN "API_REFERENCE"
                  ELSE IF first \in {"getting_started", "user_guide"} THEN "TUTORIAL_GUIDE"
                  ELSE IF first = "development" THEN "DEVELOPMENT_GUIDE"
                  ELSE "GENERAL"
  IN [ source |-> Basename(source_path, sep),
       doc_type |-> doc_type,
       api_name |-> IF doc_type = "API_REFERENCE"
                      THEN Some(StripExtension(Basename(source_path, sep)))
                      ELSE None ]

\* _extract_metadata
ExtractMetadata(source_path, sep) ==
  LET normalized_path == Replace(source_path, sep, "/")
      doc_type == IF Contains(normalized_path, <<"reference", "/", "api">>) THEN "API_REFERENCE"
                  ELSE IF \/ Contains(normalized_path, <<"getting_started">>)
                          \/ Contains(normalized_path, <<"user_guide">>) THEN "TUTORIAL_GUIDE"
                  ELSE IF Contains(normalized_path, <<"development">>) THEN "DEVELOPMENT_GUIDE"
                  ELSE "GENERAL"
  IN [ source |-> Basename(source_path, sep),
       doc_type |-> doc_type,
       api_name |-> IF doc_type = "API_REFERENCE"
                      THEN Some(StripExtension(Basename(source_path, sep)))
                      ELSE None ]

\* an id numbered by the chunk's position within its document
ChunkId_PerDocument(metadata, position, count) ==
  (IF metadata.api_name = None THEN <<"None">> ELSE metadata.api_name[1])
    \o <<"_">> \o Decimal(position)

\* f"{final_metadata.get('api_name', final_metadata.get('source', 'chunk'))}_{len(all_chunks)}":
\* the key api_name is always present, so its value is formatted, None included;
\* position is the chunk's place in its document, count is len(all_chunks)
ChunkId(metadata, position, count) ==
  (IF metadata.api_name = None THEN <<"None">> ELSE metadata.api_name[1])
    \o <<"_">> \o Decimal(count)

\* an inner loop without the copy: the chunks of a document share one
\* dictionary, so each holds the chunk_id that was written last
AddChunks_Shared(all, doc, metadata, position, n) ==
  all \o [ q \in 1..(n - position) |->
            [ doc |-> doc, piece |-> position + q - 1,
              metadata |-> [ source |-> metadata.source,
                             doc_type |-> metadata.doc_type,
                             api_name |-> metadata.api_name,
                             chunk_id |-> ChunkId(metadata, n - 1, Len(all) + n - position - 1) ] ] ]

RECURSIVE AddChunks(_, _, _, _, _)
\* the inner loop: each chunk gets a copy of the document's metadata with its
\* chunk_id and is appended to all_chunks
AddChunks(all, doc, metadata, position, n) ==
  IF position >= n THEN all
  ELSE AddChunks(
         Append(all, [ doc |-> doc, piece |-> position,
                       metadata |-> [ source |-> metadata.source,
                                      doc_type |-> metadata.doc_type,
                                      api_name |-> metadata.api_name,
                                      chunk_id |-> ChunkId(metadata, position, Len(all)) ] ]),
         doc, metadata, position + 1, n)

IndexIdle ==
  /\ ipc = "idle"
  /\ os_sep = "/"
  /\ corpus = <<>>
  /\ unreadable = {}
  /\ documents = <<>>
  /\ doc_index = 0
  /\ all_chunks = <<>>
  /\ skipped = {}

\* get_processed_chunks is called
IndexInit ==
  /\ ipc = "load"
  /\ os_sep \in Seps
  /\ corpus \in DocumentLists(os_sep)
  /\ unreadable = {}
  /\ documents = <<>>
  /\ doc_index = 0
  /\ all_chunks = <<>>
  /\ skipped = {}

\* the numbers of chunks a document is split into: none, one, or many
ChunkCounts == {0, 1, MaxChunksPerDoc}

\* load_documents and the test of its result in get_processed_chunks:
\* loader.load() returns every file of the corpus, or raises at a file it
\* cannot read, and then load_documents returns [] and so does the run
LoadDocuments ==
  /\ ipc = "load"
  /\ \E bad \in {{}} \cup { {j} : j \in DOMAIN corpus } :
       /\ unreadable' = bad
       /\ documents' = IF bad = {} THEN corpus ELSE <<>>
  /\ ipc' = IF documents' = <<>> THEN "returned" ELSE "loop"
  /\ UNCHANGED <<os_sep, corpus, doc_index, all_chunks, skipped>>
  /\ UNCHANGED <<embedVars, appVars, buildVars>>

\* one iteration of the loop over the documents; the splitter raises, or
\* yields n chunks of the document
SplitDocument ==
  /\ ipc = "loop"
  /\ doc_index < Len(documents)
  /\ LET doc == doc_index + 1
         base_metadata == ExtractMetadata(documents[doc], os_sep)
     IN \E raised \in BOOLEAN, n \in ChunkCounts :
          IF raised \/ n = 0
            THEN /\ skipped' = skipped \cup {doc}
                 /\ UNCHANGED all_chunks
            ELSE /\ all_chunks' = AddChunks(all_chunks, doc, base_metadata, 0, n)
                 /\ UNCHANGED skipped
  /\ doc_index' = doc_index + 1
  /\ UNCHANGED <<ipc, os_sep, corpus, unreadable, documents>>
  /\ UNCHANGED <<embedVars, appVars, buildVars>>

\* the loop is over: all_chunks is returned
SplitReturn ==
  /\ ipc = "loop"
  /\ doc_index = Len(documents)
  /\ ipc' = "returned"
  /\ UNCHANGED <<os_sep, corpus, unreadable, documents, doc_index, all_chunks, skipped>>
  /\ UNCHANGED <<embedVars, appVars, buildVars>>

IndexNext == LoadDocuments \/ SplitDocument \/ SplitReturn

(***************************************************************************)
(* Specifications                                                          *)
(***************************************************************************)
\* in each specification one component runs and the others stay idle
InitEmbed == EmbedInit /\ AppIdle /\ BuildIdle /\ IndexIdle

InitApp == AppInit /\ EmbedIdle /\ BuildIdle /\ IndexIdle

InitBuild == BuildInit /\ EmbedIdle /\ AppIdle /\ IndexIdle

InitIndex == IndexInit /\ EmbedIdle /\ AppIdle /\ BuildIdle

SpecEmbed == InitEmbed /\ [][EmbedNext]_vars

SpecApp == InitApp /\ [][AppNext]_vars

\* the pool gives a free thread to a waiting worker, a worker thread keeps
\* running (the calls it makes return or raise), and the event loop of the UI
\* thread delivers the queued signals
LiveSpecApp ==
  /\ SpecApp
  /\ \A w \in 1..MaxQueries : WF_vars(WorkerStep(w))
  /\ WF_vars(UpdateResult)

SpecBuild == InitBuild /\ [][BuildNext]_vars

SpecIndex == InitIndex /\ [][IndexNext]_vars

(***************************************************************************)
(* Claims                                                                  *)
(***************************************************************************)
RequestSizes == [r \in 1..Len(requests) |-> Len(requests[r].input)]

\* C1: when embed_documents returns, it has issued ceil(N/10) requests (none
\* for N = 0; 10, 10, 3 for N = 23), the returned list has length N and its
\* i-th element is the vector of the i-th input.
C1_BatchCountAndOrder ==
  epc = "returned" =>
    /\ Len(requests) = Ceil(Len(texts), BATCH_SIZE)
    /\ (Len(texts) = 0 => requests = <<>>)
    /\ (Len(texts) = 23 => RequestSizes = <<10, 10, 3>>)
    /\ eresult.returned
    /\ Len(eresult.value) = Len(texts)
    /\ \A j \in 1..Len(texts) : eresult.value[j] = Embedding(texts[j])

C1_Witness ==
  /\ epc = "returned"
  /\ Len(texts) = 23
  /\ Len(requests) = 3

\* C2: a failed slice request ends the call with the error: nothing is
\* returned, the failed slice is the last request made and is requested once.
C2_FailFast ==
  \A r \in 1..Len(requests) :
    ~requests[r].ok =>
      /\ epc = "raised"
      /\ eresult = NoResult
      /\ r = Len(requests)
      /\ \A q \in 1..Len(requests) : q # r => requests[q].start # requests[r].start

C2_Witness ==
  /\ epc = "raised"
  /\ Len(requests) = 3
  /\ Len(all_embeddings) = 20
  /\ eresult = NoResult

\* C3: retrieve_documents yields the empty list and raises nothing to
\* generate_answer when the store is unavailable or the search raised.
C3_RetrieveNeverRaises ==
  \A w \in DOMAIN workers :
    /\ workers[w].retrieval # "propagated"
    /\ workers[w].retrieval \in {"no_db", "embed_error", "search_error"} => workers[w].docs = <<>>

C3_Witness ==
  \E w \in DOMAIN workers :
    /\ workers[w].pc = "invoke"
    /\ workers[w].retrieval = "search_error"
    /\ collection # <<>>
    /\ workers[w].docs = <<>>

\* the labelled blocks of docs, in order, with the separator between them
LabelledBlocks(ctx, docs) ==
  /\ Len(ctx) = 8 * Len(docs) - 1
  /\ \A d \in 1..Len(docs) :
       LET o == 8 * (d - 1) IN
       /\ ctx[o + 2] = (IF docs[d].source = Absent THEN "unknown source" ELSE docs[d].source)
       /\ ctx[o + 4] = (IF docs[d].api_name = Absent THEN "general" ELSE docs[d].api_name)
       /\ ctx[o + 6] = docs[d].page_content
       /\ d < Len(docs) => ctx[o + 8] = Separator

\* C4: the context about to be handed to the generation service is never
\* empty: it is the sentinel exactly when no chunk was retrieved, otherwise
\* the labelled blocks of the retrieved chunks in result order.
C4_ContextNeverEmpty ==
  \A w \in DOMAIN workers :
    workers[w].pc = "invoke" =>
      /\ workers[w].context # <<>>
      /\ \E p \in 1..Len(workers[w].context) : workers[w].context[p] # ""
      /\ (workers[w].docs = <<>>) <=> (workers[w].context = Sentinel)
      /\ workers[w].docs # <<>> => LabelledBlocks(workers[w].context, workers[w].docs)

C4_Witness ==
  \E w \in DOMAIN workers :
    /\ workers[w].pc = "invoke"
    /\ Len(workers[w].docs) >= 2

\* a step that is a configure call whose arguments equal the engine's
\* current configuration
SameValuesCall ==
  /\ cfg_calls' = cfg_calls + 1
  /\ last_args' = <<llm_model_name, llm_base_url, k_value>>

\* C5 as stated: a configure call with the current model, endpoint and k
\* changes no engine state and constructs no client.
C5_SameValuesNoOp ==
  [][SameValuesCall => UNCHANGED <<engineVars, llm_inits>>]_vars

\* C5 amended: a configure call with the current model, endpoint and k made
\* while the engine has a chain changes no engine state and constructs no
\* client.
C5_SameValuesNoOpWithChain ==
  [][SameValuesCall /\ chain # None => UNCHANGED <<engineVars, llm_inits>>]_vars

C5_Witness ==
  /\ cfg_calls = 3
  /\ llm_inits = 1
  /\ chain # None

\* the queries submitted whose result update_result has not shown yet
Outstanding == { w \in DOMAIN workers : workers[w].updates = 0 }

\* C6: at most one query is outstanding at any time.
C6_OneOutstanding == Cardinality(Outstanding) <= 1

ErrorMessages == {LLMErrorMsg, TaskFailedMsg}

\* C7: every submitted query gets exactly one update_result call, which
\* re-enables the input field, and a failed generation call delivers an
\* error message.
C7_EveryQueryAnswered ==
  /\ [](\A w \in DOMAIN workers :
          /\ workers[w].updates <= 1
          /\ workers[w].gen_failed /\ workers[w].pc = "emit" => workers[w].result = LLMErrorMsg)
  /\ [](\A s \in 1..Len(signals) :
          workers[signals[s].worker].gen_failed => signals[s].text \in ErrorMessages)
  /\ [][(\E w \in DOMAIN workers \cap DOMAIN workers' : workers'[w].updates # workers[w].updates)
          => input_enabled' /\ output_area' = Head(signals).text]_vars
  /\ \A w \in 1..MaxQueries :
       (w \in DOMAIN workers) ~> (w \in DOMAIN workers /\ workers[w].updates = 1)

C7_Witness ==
  \E w \in DOMAIN workers :
    /\ workers[w].updates = 1
    /\ output_area = LLMErrorMsg
    /\ input_enabled

\* C8: a query whose embedding failed never goes on to the generation call.
C8_EmbeddingFailureAborts ==
  \A w \in DOMAIN workers :
    ~(workers[w].pc = "invoke" /\ workers[w].retrieval = "embed_error")

\* C9 as stated: embedding requests and store writes happen only after the
\* user was prompted and answered Y (trimmed, upper-cased).
C9_NoCostWithoutConfirmation ==
  (requests # <<>> \/ persisted # <<>>) =>
    prompted /\ Upper(Strip(user_input)) = <<"Y">>

\* C9 amended: embedding requests and store writes happen only after the
\* user was prompted and answered Y, or after the token estimation raised
\* ImportError, in which case the build goes on without a prompt.
C9_NoCostWithoutConfirmationOrImportError ==
  (requests # <<>> \/ persisted # <<>>) =>
    \/ prompted /\ Upper(Strip(user_input)) = <<"Y">>
    \/ estimate = "import_error" /\ ~prompted

C9_Witness ==
  /\ bpc = "built"
  /\ persisted # <<>>
  /\ prompted
  /\ user_input = <<" ", "y", " ">>

RECURSIVE LastUnderscore(_)
\* the position of the last "_" of an id, 0 when it has none
LastUnderscore(id) ==
  IF id = <<>> THEN 0
  ELSE IF id[Len(id)] = "_" THEN Len(id)
  ELSE LastUnderscore(SubSeq(id, 1, Len(id) - 1))

\* the numeric suffix of a chunk_id: what follows its last "_"
SuffixOf(id) == NumberOf(SubSeq(id, LastUnderscore(id) + 1, Len(id)))

\* C10: in the list being assembled and returned, chunk_ids are pairwise
\* different and the suffix of the chunk at position p (from 0) is p.
C10_ChunkIdsUnique ==
  /\ \A p, q \in 1..Len(all_chunks) :
       p # q => all_chunks[p].metadata.chunk_id # all_chunks[q].metadata.chunk_id
  /\ \A p \in 1..Len(all_chunks) :
       /\ LastUnderscore(all_chunks[p].metadata.chunk_id) > 0
       /\ LastUnderscore(all_chunks[p].metadata.chunk_id) < Len(all_chunks[p].metadata.chunk_id)
       /\ SuffixOf(all_chunks[p].metadata.chunk_id) = p - 1

C10_Witness ==
  /\ ipc = "returned"
  /\ Len(all_chunks) >= 11
  /\ \E d \in skipped : d < Len(documents) /\ d > 1

\* a path with its separators written as forward slashes
ForwardSlash(path) == [p \in DOMAIN path |-> IF path[p] = "\\" THEN "/" ELSE path[p]]

\* s ends with t, and t starts right after a separator or is all of s
IsBaseName(t, s) ==
  /\ \A p \in DOMAIN t : t[p] \notin {"/", "\\"}
  /\ Len(t) <= Len(s)
  /\ SubSeq(s, Len(s) - Len(t) + 1, Len(s)) = t
  /\ Len(t) < Len(s) => s[Len(s) - Len(t)] \in {"/", "\\"}

\* C11: every chunk's doc_type is the one of the first rule, in the order API
\* reference, tutorial, development, general, whose marker occurs in the
\* forward-slash form of its document's source path, and its source is the
\* base name of that path.
C11_DocTypeByPriority ==
  \A c \in 1..Len(all_chunks) :
    LET np == ForwardSlash(documents[all_chunks[c].doc])
        m == all_chunks[c].metadata
        api == Contains(np, <<"reference", "/", "api">>)
        tutorial == Contains(np, <<"getting_started">>) \/ Contains(np, <<"user_guide">>)
        development == Contains(np, <<"development">>)
    IN /\ api => m.doc_type = "API_REFERENCE"
       /\ (~api /\ tutorial) => m.doc_type = "TUTORIAL_GUIDE"
       /\ (~api /\ ~tutorial /\ development) => m.doc_type = "DEVELOPMENT_GUIDE"
       /\ (~api /\ ~tutorial /\ ~development) => m.doc_type = "GENERAL"
       /\ IsBaseName(m.source, documents[all_chunks[c].doc])

\* a run on a backslash platform returned chunks of documents whose paths hold
\* two markers, a lower-priority one first
C11_Witness ==
  /\ ipc = "returned"
  /\ os_sep = "\\"
  /\ \E c \in 1..Len(all_chunks) :
       /\ documents[all_chunks[c].doc][1] = "development"
       /\ all_chunks[c].metadata.doc_type = "TUTORIAL_GUIDE"
  /\ \E c \in 1..Len(all_chunks) :
       /\ documents[all_chunks[c].doc][1] = "getting_started"
       /\ all_chunks[c].metadata.doc_type = "API_REFERENCE"
  /\ \E c \in 1..Len(all_chunks) : all_chunks[c].metadata.doc_type = "GENERAL"

\* the base name of a path: what follows its last separator
RECURSIVE FileName(_)
FileName(path) ==
  IF path = <<>> THEN <<>>
  ELSE IF path[Len(path)] \in {"/", "\\"} THEN <<>>
  ELSE FileName(SubSeq(path, 1, Len(path) - 1)) \o <<path[Len(path)]>>

\* a file name that ends in .rst.txt, without that ending
WithoutExtension(name) ==
  IF name # <<>> /\ name[Len(name)] = ".rst.txt" THEN SubSeq(name, 1, Len(name) - 1) ELSE name

\* C12: every chunk of a document under an API-reference path has doc_type
\* API_REFERENCE and, as api_name, the file name without its ending .rst.txt;
\* every chunk of another document has no api_name.
C12_ApiNameFromFilename ==
  \A c \in 1..Len(all_chunks) :
    LET path == documents[all_chunks[c].doc]
        m == all_chunks[c].metadata
    IN IF Contains(ForwardSlash(path), <<"reference", "/", "api">>)
         THEN /\ m.doc_type = "API_REFERENCE"
              /\ m.api_name = Some(WithoutExtension(FileName(path)))
         ELSE /\ m.doc_type # "API_REFERENCE"
              /\ m.api_name = None

\* the corpus files whose chunks the returned list holds
Delivered == { j \in DOMAIN corpus :
                 \E c \in 1..Len(all_chunks) : documents[all_chunks[c].doc] = corpus[j] }

\* C13: when the run has returned, every file that could be read and whose
\* split neither failed nor came out empty has its chunks in the result, and
\* the chunks are in document order.
C13_FailureSkipsOneDocument ==
  ipc = "returned" =>
    /\ \A j \in DOMAIN corpus : (j \notin unreadable /\ j \notin skipped) => j \in Delivered
    /\ \A c, d \in 1..Len(all_chunks) : c < d => all_chunks[c].doc <= all_chunks[d].doc

\* C14: the k the engine holds once configured is a number from 1 to 10, and
\* a worker about to search finds such a k in the engine.
C14_KWithinRange ==
  /\ k_value # None => k_value[1] \in 1..10
  /\ \A w \in DOMAIN workers : workers[w].pc = "retrieve" => k_value # None

\* C16: the slices requested by one call are consecutive ranges of the input,
\* each of 1 to 10 texts, the first starting at the first text and each next
\* one where the one before ended, and a slice is requested only when the
\* request before it has returned successfully.
C16_SlicesInOrder ==
  \A r \in 1..Len(requests) :
    LET rq == requests[r] IN
    /\ Len(rq.input) \in 1..10
    /\ rq.start + Len(rq.input) <= Len(texts)
    /\ rq.input = SubSeq(texts, rq.start + 1, rq.start + Len(rq.input))
    /\ r = 1 => rq.start = 0
    /\ r > 1 => /\ requests[r - 1].ok
                /\ rq.start = requests[r - 1].start + Len(requests[r - 1].input)

\* a call made three requests, the first two full and answered, the third
\* with the remaining texts
C16_Witness ==
  /\ Len(requests) = 3
  /\ requests[1].ok /\ requests[2].ok
  /\ Len(requests[2].input) = 10
  /\ Len(requests[3].input) \in 1..9
  /\ requests[3].start = 20

\* the part of a chunk_id before the "_" of its counter
PrefixOf(id) == SubSeq(id, 1, LastUnderscore(id) - 1)

\* C17: the prefix of every chunk_id is the chunk's api_name when it has one,
\* and its source, the base name of the file, when it has none.
C17_ChunkIdPrefix ==
  \A c \in 1..Len(all_chunks) :
    LET m == all_chunks[c].metadata IN
    PrefixOf(m.chunk_id) = IF m.api_name # None THEN m.api_name[1] ELSE m.source

\* the fields of a chunk's metadata that come from its document
Inherited(m) == [source |-> m.source, doc_type |-> m.doc_type, api_name |-> m.api_name]

\* C18: every chunk carries the source, doc_type and api_name extracted for
\* its document, so the chunks of one document agree on them and differ in
\* chunk_id only, and a chunk already in the list is not changed when later
\* chunks get their metadata.
C18_MetadataInherited ==
  /\ [](\A c \in 1..Len(all_chunks) :
          /\ DOMAIN all_chunks[c].metadata = {"source", "doc_type", "api_name", "chunk_id"}
          /\ Inherited(all_chunks[c].metadata)
               = ExtractMetadata(documents[all_chunks[c].doc], os_sep)
          /\ \A d \in 1..Len(all_chunks) :
               (c # d /\ all_chunks[c].doc = all_chunks[d].doc) =>
                 /\ Inherited(all_chunks[c].metadata) = Inherited(all_chunks[d].metadata)
                 /\ all_chunks[c].metadata.chunk_id # all_chunks[d].metadata.chunk_id)
  /\ [][\A c \in 1..Len(all_chunks) :
          c <= Len(all_chunks') /\ all_chunks'[c] = all_chunks[c]]_vars

\* the run returned the many chunks of one document after those of a document
\* of another type
C18_Witness ==
  /\ ipc = "returned"
  /\ \E c, d \in 1..Len(all_chunks) :
       /\ all_chunks[c].doc < all_chunks[d].doc
       /\ all_chunks[c].metadata.doc_type # all_chunks[d].metadata.doc_type
       /\ all_chunks[d].piece = MaxChunksPerDoc - 1
       /\ all_chunks[d].metadata.api_name # None

\* C19: at most two workers occupy a pool thread at any time; a worker handed
\* to the pool stays with it (none is dropped), waits while it has no thread,
\* and is eventually run.
C19_TwoAtATime ==
  /\ [](Cardinality(Running) <= 2)
  /\ [][\A w \in DOMAIN workers :
          /\ w \in DOMAIN workers'
          /\ workers[w].pc = "queued" => workers'[w].pc \in {"queued", "check"}]_vars
  /\ \A w \in 1..MaxQueries :
       (w \in DOMAIN workers /\ workers[w].pc = "queued")
         ~> (w \in DOMAIN workers /\ workers[w].pc # "queued")

\* two workers are running and a third, submitted meanwhile, waits
C19_Witness ==
  /\ Cardinality(Running) = 2
  /\ \E w \in DOMAIN workers : workers[w].pc = "queued" /\ \A v \in 1..(w - 1) : v \in Running

\* C20: a configure call that failed leaves the engine without chain and is
\* reported by _apply_config, which keeps the application running with the
\* configuration and theme it had; a generate_answer that starts while the
\* last configure call is a failed one goes from its chain check straight to
\* returning the not-configured message; after a configure call that
\* succeeded the engine has a chain again.
C20_FailedConfigureDisablesAnswers ==
  /\ [](last_cfg = "failed" => chain = None /\ error_box /\ apc = "running")
  /\ [](last_cfg = "ok" => chain # None /\ ~error_box)
  /\ [][last_cfg' = "failed" /\ cfg_calls' # cfg_calls =>
          current_config' = current_config /\ current_theme' = current_theme]_vars
  /\ [][\A w \in DOMAIN workers \cap DOMAIN workers' :
          (last_cfg = "failed" /\ workers[w].pc = "check" /\ workers'[w].pc # "check") =>
            /\ workers'[w].pc = "emit"
            /\ workers'[w].result = NotConfiguredMsg
            /\ workers'[w].retrieval = "none"]_vars

\* after a failed configure call a query was answered with the not-configured
\* message, and a later configure call succeeded
C20_Witness ==
  /\ last_cfg = "ok"
  /\ cfg_calls = 3
  /\ llm_inits = 3
  /\ chain # None
  /\ output_area = NotConfiguredMsg
  /\ \E w \in DOMAIN workers : workers[w].pc = "done"

\* C21: the k a query searched with and the chain that generated its answer
\* were set by the same configure call.
C21_OneConfigurationPerQuery ==
  \A w \in DOMAIN workers :
    workers[w].pc = "emit" /\ workers[w].k_call # 0 =>
      workers[w].chain_call = workers[w].k_call


====
